---- MODULE Spec2Model ----
(***************************************************************************)
(* A model of s3_perf.cc: an S3 throughput test.  main runs an upload      *)
(* stage and a download stage, each FLAGS_count times; every iteration     *)
(* spawns FLAGS_num_threads driver threads; a driver submits               *)
(* FLAGS_num_objects asynchronous requests, throttled by its own Ctx (a    *)
(* counter of outstanding requests under a mutex and a condition           *)
(* variable), and the SDK runs one completion callback per request on its  *)
(* own threads.                                                            *)
(*                                                                         *)
(* Every access to Ctx::num_outstanding_req_ is made with mtx_ held for    *)
(* the whole method body, so a method body is one step of the model;       *)
(* cond_.wait(lck) releases mtx_ while the caller is blocked, which splits *)
(* GetAvailableSlot and WaitAll in two steps, with anything else running   *)
(* in between.                                                             *)
(***************************************************************************)
EXTENDS Integers, Sequences, FiniteSets, Bags, TLC

\* ------------------------------------------------------------- bounds
MaxThreads == 2        \* FLAGS_num_threads ranges over 1..MaxThreads
MaxObjects == 3        \* FLAGS_num_objects ranges over 1..MaxObjects
MaxCount == 2          \* FLAGS_count ranges over 1..MaxCount
MaxRequests == 4       \* num_threads * num_objects * count <= MaxRequests
MaxOutstanding == 2    \* the largest limit configured
KeyRange == 11         \* keys are compared for thread numbers and indexes 0..KeyRange

Workers == 0 .. (MaxThreads - 1)
Objects == 0 .. (MaxObjects - 1)

\* The values of --stage the program tells apart (anything else acts as "all").
Stages == {"upload", "download", "all"}

\* --obj_size_kb
ObjSizesKb == {1}

\* <<--num_outstanding_req, --num_connections>>: a negative, a zero and two
\* positive limits, with the connection pool below and above the limit.
Limits ==
  { <<0 - 1, 1>>, <<0, MaxOutstanding>>, <<1, MaxOutstanding>>, <<MaxOutstanding, 1>> }

\* --prefix, as a sequence of characters.
Prefixes == { <<"o", "/">> }

VARIABLES
  argv,                  \* the flags as given on the command line
  FLAGS,                 \* the gflags globals
  ndebug,                \* the build: TRUE when assert() is compiled out
  g_obj,                 \* the data chunk: its length, and which InitChunk filled it
  store,                 \* the bucket: key -> length of the object stored
  issued,                \* the bag of requests handed to the S3 client
  main_pc,               \* where main is
  iteration,             \* main's ii, the iteration passed to Upload/Download
  thread_ii,             \* ii of the spawn and join loops of Upload/Download
  reports,               \* what the ReportDuration destructors have printed
  proc,                  \* "running", "exiting" (in exit(1)), "exited", "aborted"
  exit_code,
  t_pc,                  \* per driver thread: where it is
  t_ii,                  \* per driver thread: ii of its request loop
  num_outstanding_req_,  \* per Ctx: Ctx::num_outstanding_req_
  cond_,                 \* per Ctx: the threads blocked in cond_.wait
  req                    \* per driver thread and index: the request and its outcome

vars ==
  << argv, FLAGS, ndebug, g_obj, store, issued, main_pc, iteration, thread_ii,
     reports, proc, exit_code, t_pc, t_ii, num_outstanding_req_, cond_, req >>

mainVars == << main_pc, iteration, thread_ii, reports >>
ctxVars == << num_outstanding_req_, cond_ >>
procVars == << proc, exit_code >>

\* ------------------------------------------------------------- keys
DigitChars == << "0", "1", "2", "3", "4", "5", "6", "7", "8", "9" >>

RECURSIVE to_string(_)
\* Aws::Utils::StringUtils::to_string of a non-negative int: its decimal digits.
to_string(n) ==
  IF n < 10 THEN << DigitChars[n + 1] >>
  ELSE to_string(n \div 10) \o << DigitChars[(n % 10) + 1] >>

\* A prefix without the "_" between the thread number and the index.
GetObjPrefix_NoSeparator(thread_num) == FLAGS.prefix \o to_string(thread_num)

\* FLAGS_prefix + to_string(thread_num) + "_"
GetObjPrefix(thread_num) == FLAGS.prefix \o to_string(thread_num) \o << "_" >>

\* The key UploadThread gives to request ii of thread thread_num.
UploadKey(thread_num, ii) == GetObjPrefix(thread_num) \o to_string(ii)

\* A DownloadThread that numbers the objects from 1.
DownloadKey_OneBased(thread_num, ii) == GetObjPrefix(thread_num) \o to_string(ii + 1)

\* The key DownloadThread gives to request ii of thread thread_num.
DownloadKey(thread_num, ii) == GetObjPrefix(thread_num) \o to_string(ii)

\* FLAGS_obj_size_kb * 1024
ObjSizeBytes == FLAGS.obj_size_kb * 1024

\* ------------------------------------------------------------- initial state
NoRequest == [st |-> "none", key |-> << >>, success |-> FALSE, err |-> "", len |-> 0]

\* A bucket left by an earlier run with the same prefix whose objects were
\* len bytes long.
EarlierRun(prefix, len) ==
  LET key(w, i) == prefix \o to_string(w) \o << "_" >> \o to_string(i)
      keys == { key(w, i) : w \in Workers, i \in Objects }
  IN [k \in keys |-> len]

EmptyBucket == [k \in {} |-> 0]

\* The lengths of the objects an earlier run can have left in the bucket (0: the
\* bucket is empty).  What the bucket holds at the start shows only in the
\* answers to gets: a download stage alone meets objects of the right size, of
\* another size or none; after an upload stage, what it has not overwritten.
OldObjects(stg, kb) ==
  IF stg = "upload" THEN {0}
  ELSE IF stg = "download" THEN {0, kb * 1024, (kb + 1) * 1024}
  ELSE {0, (kb + 1) * 1024}

\* The state when main starts with the flags parsed, the bucket as it is found.
Start(flags, bucket) ==
  /\ argv = flags
  /\ store = bucket
  /\ FLAGS = argv
  /\ ndebug \in BOOLEAN
  /\ g_obj = [size |-> 0, fill |-> 0]
  /\ issued = EmptyBag
  /\ main_pc = "main"
  /\ iteration = 0
  /\ thread_ii = 0
  /\ reports = << >>
  /\ proc = "running"
  /\ exit_code = 0
  /\ t_pc = [w \in Workers |-> "none"]
  /\ t_ii = [w \in Workers |-> 0]
  /\ num_outstanding_req_ = [w \in Workers |-> 0]
  /\ cond_ = [w \in Workers |-> {}]
  /\ req = [w \in Workers |-> [i \in Objects |-> NoRequest]]

Init ==
  \E nt \in 1 .. MaxThreads, no \in 1 .. MaxObjects, c \in 1 .. MaxCount,
     lim \in Limits, stg \in Stages, kb \in ObjSizesKb, pfx \in Prefixes :
    /\ nt * no * c <= MaxRequests
    /\ \E old \in OldObjects(stg, kb) :
         Start([prefix |-> pfx, obj_size_kb |-> kb, num_threads |-> nt,
                num_objects |-> no, num_connections |-> lim[2],
                num_outstanding_req |-> lim[1], stage |-> stg, count |-> c],
               IF old = 0 THEN EmptyBucket ELSE EarlierRun(pfx, old))

\* The run of two threads with three objects each and two requests
\* outstanding per thread: --num_threads=2 --num_objects=3
\* --obj_size_kb=1 --num_outstanding_req=2 --count=1, the upload stage alone or
\* followed by the download stage, on an empty bucket.
ScenarioInit ==
  \E stg \in {"upload", "all"}, pfx \in Prefixes :
    Start([prefix |-> pfx, obj_size_kb |-> 1, num_threads |-> 2,
           num_objects |-> 3, num_connections |-> 2,
           num_outstanding_req |-> 2, stage |-> stg, count |-> 1],
          EmptyBucket)

\* Threads run until the process image is gone: exit(1) called by a completion
\* thread runs the exit handlers while every other thread keeps running.
Alive == proc \in {"running", "exiting"}

\* ------------------------------------------------------------- Ctx
\* A thread function that takes the Ctx of thread 0 instead of making its own.
aws_ctx_Shared(thread_num) == 0

\* The Ctx of driver thread thread_num: UploadThread and DownloadThread make
\* one of their own (make_shared<Ctx>()) and call its methods.
aws_ctx(thread_num) == thread_num

\* A submission that hands every callback the Ctx of thread 0.
context_OfThread0(thread_num) == 0

\* The caller context the callback of a request of thread thread_num gets: the
\* aws_ctx its driver passed to PutObjectAsync or GetObjectAsync.
context(thread_num) == aws_ctx(thread_num)

\* The limit GetAvailableSlot reads, at each call.
SlotLimit == FLAGS.num_outstanding_req

\* A GetAvailableSlot that forgets the increment.
SlotTaken_Forgotten(n) == n

\* ++num_outstanding_req_
SlotTaken(n) == n + 1

\* --num_outstanding_req_
SlotGiven(n) == n - 1

\* A ReleaseSlot that notifies nobody.
notify_one_Missing(waiters) == { waiters }

\* cond_.notify_one(): the sets of waiters it can leave blocked.
notify_one(waiters) ==
  IF waiters = {} THEN { {} } ELSE { waiters \ {t} : t \in waiters }

\* A WaitAll that stops waiting one completion early.
WaitAllBlocks_OffByOne(n) == n > 1

\* The test of the loop of WaitAll.
WaitAllBlocks(n) == n > 0

\* A failed assert(): abort() ends the process at once with SIGABRT.
AssertFailed ==
  /\ proc' = "aborted"
  /\ exit_code' = 134

\* exit(1) on a completion thread.  The exit handlers run on that thread, which
\* never returns to its caller; the process is gone at ProcessExit.  A second
\* call while the first is in progress leaves that caller stuck as well.
Exit1 ==
  /\ proc' = "exiting"
  /\ exit_code' = 1

\* The part of GetAvailableSlot after the test and the wait: the assertion and
\* the increment.
AssertAndTake(w) ==
  IF num_outstanding_req_[aws_ctx(w)] < SlotLimit \/ ndebug
  THEN /\ num_outstanding_req_' =
            [num_outstanding_req_ EXCEPT
               ![aws_ctx(w)] = SlotTaken(num_outstanding_req_[aws_ctx(w)])]
       /\ t_pc' = [t_pc EXCEPT ![w] = "submit"]
       /\ UNCHANGED procVars
  ELSE /\ AssertFailed
       /\ UNCHANGED << num_outstanding_req_, t_pc >>

\* GetAvailableSlot up to the return or to the block in cond_.wait.
GetAvailableSlot(w) ==
  /\ Alive
  /\ t_pc[w] = "GetAvailableSlot"
  /\ IF num_outstanding_req_[aws_ctx(w)] >= SlotLimit
     THEN /\ cond_' = [cond_ EXCEPT ![aws_ctx(w)] = cond_[aws_ctx(w)] \cup {w}]
          /\ t_pc' = [t_pc EXCEPT ![w] = "wait_slot"]
          /\ UNCHANGED << num_outstanding_req_, procVars >>
     ELSE /\ AssertAndTake(w)
          /\ UNCHANGED cond_
  /\ UNCHANGED << argv, FLAGS, ndebug, g_obj, store, issued, mainVars, t_ii, req >>

\* GetAvailableSlot from the return of cond_.wait: the test is not repeated.
GetAvailableSlotWoken(w) ==
  /\ Alive
  /\ t_pc[w] = "wait_slot"
  /\ w \notin cond_[aws_ctx(w)]
  /\ AssertAndTake(w)
  /\ UNCHANGED << argv, FLAGS, ndebug, g_obj, store, issued, mainVars, t_ii, req, cond_ >>

\* condition_variable::wait may return without a notification.
SpuriousWakeup(w) ==
  /\ Alive
  /\ w \in cond_[aws_ctx(w)]
  /\ cond_' = [cond_ EXCEPT ![aws_ctx(w)] = cond_[aws_ctx(w)] \ {w}]
  /\ UNCHANGED << argv, FLAGS, ndebug, g_obj, store, issued, mainVars, procVars,
                  t_pc, t_ii, num_outstanding_req_, req >>

\* ReleaseSlot, called by the completion callback of request i of driver w.
ReleaseSlot(w, i) ==
  /\ Alive
  /\ req[w][i].st = "callback"
  /\ IF num_outstanding_req_[context(w)] > 0 \/ ndebug
     THEN /\ num_outstanding_req_' =
               [num_outstanding_req_ EXCEPT
                  ![context(w)] = SlotGiven(num_outstanding_req_[context(w)])]
          /\ \E left \in notify_one(cond_[context(w)]) :
               cond_' = [cond_ EXCEPT ![context(w)] = left]
          /\ req' = [req EXCEPT ![w][i].st = "done"]
          /\ UNCHANGED procVars
     ELSE /\ AssertFailed
          /\ UNCHANGED << num_outstanding_req_, cond_, req >>
  /\ UNCHANGED << argv, FLAGS, ndebug, g_obj, store, issued, mainVars, t_pc, t_ii >>

\* One pass of the loop of WaitAll: block, or return to UploadThread or
\* DownloadThread, which returns too.
WaitAllLoop(w) ==
  IF WaitAllBlocks(num_outstanding_req_[aws_ctx(w)])
  THEN /\ cond_' = [cond_ EXCEPT ![aws_ctx(w)] = cond_[aws_ctx(w)] \cup {w}]
       /\ t_pc' = [t_pc EXCEPT ![w] = "wait_all"]
  ELSE /\ t_pc' = [t_pc EXCEPT ![w] = "returned"]
       /\ UNCHANGED cond_

WaitAll(w) ==
  /\ Alive
  /\ t_pc[w] = "WaitAll"
  /\ WaitAllLoop(w)
  /\ UNCHANGED << argv, FLAGS, ndebug, g_obj, store, issued, mainVars, procVars,
                  t_ii, num_outstanding_req_, req >>

\* WaitAll from the return of cond_.wait: the test is repeated.
WaitAllWoken(w) ==
  /\ Alive
  /\ t_pc[w] = "wait_all"
  /\ w \notin cond_[aws_ctx(w)]
  /\ WaitAllLoop(w)
  /\ UNCHANGED << argv, FLAGS, ndebug, g_obj, store, issued, mainVars, procVars,
                  t_ii, num_outstanding_req_, req >>

\* ------------------------------------------------------------- the S3 client
\* What the service can answer to a put: success, or an error.
PutOutcomes ==
  { [success |-> TRUE, err |-> "", len |-> 0],
    [success |-> FALSE, err |-> "NetworkError", len |-> 0] }

\* What the service can answer to a get of key: the object the bucket holds
\* under the key, NoSuchKey when it holds none, or another error.
GetOutcomes(key) ==
  { [success |-> FALSE, err |-> "NetworkError", len |-> 0] }
  \cup (IF key \in DOMAIN store
        THEN { [success |-> TRUE, err |-> "", len |-> store[key]] }
        ELSE { [success |-> FALSE, err |-> "NoSuchKey", len |-> 0] })

\* The bucket after a put of body bytes under key.
PutObject(key, body) ==
  [k \in DOMAIN store \cup {key} |-> IF k = key THEN body ELSE store[k]]

UploadRunning == main_pc \in {"Upload_spawn", "Upload_join"}
DownloadRunning == main_pc \in {"Download_spawn", "Download_join"}

\* A request loop that makes one pass too many.
MoreRequests_OneMore(ii) == ii <= FLAGS.num_objects

\* The test of the request loop of UploadThread and DownloadThread.
MoreRequests(ii) == ii < FLAGS.num_objects

\* The request loop of UploadThread and DownloadThread after a submission: ++ii
\* and the test, then the next GetAvailableSlot or WaitAll.
NextRequest(w) ==
  /\ t_ii' = [t_ii EXCEPT ![w] = t_ii[w] + 1]
  /\ t_pc' = [t_pc EXCEPT ![w] =
       IF MoreRequests(t_ii[w] + 1) THEN "GetAvailableSlot" ELSE "WaitAll"]

\* The log of the requests handed to the client: request ii of thread w of the
\* running iteration, with its key.
Issue(op, w, ii, key) ==
  issued (+) SetToBag({ [op |-> op, iteration |-> iteration, w |-> w, ii |-> ii,
                         key |-> key] })

\* UploadThread: s3_client.PutObjectAsync of request ii, its body a copy of g_obj.
PutObjectAsync(w) ==
  /\ Alive
  /\ UploadRunning
  /\ t_pc[w] = "submit"
  /\ LET key == UploadKey(w, t_ii[w])
     IN /\ req' = [req EXCEPT ![w][t_ii[w]] =
                     [st |-> "inflight", key |-> key, success |-> FALSE,
                      err |-> "", len |-> g_obj.size]]
        /\ issued' = Issue("put", w, t_ii[w], key)
  /\ NextRequest(w)
  /\ UNCHANGED << argv, FLAGS, ndebug, g_obj, store, mainVars, procVars, ctxVars >>

\* DownloadThread: s3_client.GetObjectAsync of request ii.
GetObjectAsync(w) ==
  /\ Alive
  /\ DownloadRunning
  /\ t_pc[w] = "submit"
  /\ LET key == DownloadKey(w, t_ii[w])
     IN /\ req' = [req EXCEPT ![w][t_ii[w]] =
                     [st |-> "inflight", key |-> key, success |-> FALSE,
                      err |-> "", len |-> 0]]
        /\ issued' = Issue("get", w, t_ii[w], key)
  /\ NextRequest(w)
  /\ UNCHANGED << argv, FLAGS, ndebug, g_obj, store, mainVars, procVars, ctxVars >>

\* An ObjUploadDone that does not look at the outcome.
UploadDoneOk_Unchecked(outcome) == TRUE

\* The tests of ObjUploadDone: TRUE when it goes on to ReleaseSlot.
UploadDoneOk(outcome) == outcome.success

\* An ObjDownloadDone without the test of the content length.
DownloadDoneOk_NoLength(outcome) == outcome.success

\* The tests of ObjDownloadDone: TRUE when it goes on to ReleaseSlot.
DownloadDoneOk(outcome) == outcome.success /\ outcome.len = ObjSizeBytes

\* The completion of the put of request i of driver w: the service answers and
\* the SDK calls ObjUploadDone, which exits or goes on to ReleaseSlot.
ObjUploadDone(w, i) ==
  /\ Alive
  /\ UploadRunning
  /\ req[w][i].st = "inflight"
  /\ \E outcome \in PutOutcomes :
       /\ store' = IF outcome.success
                   THEN PutObject(req[w][i].key, req[w][i].len) ELSE store
       /\ IF UploadDoneOk(outcome)
          THEN /\ req' = [req EXCEPT ![w][i] =
                            [@ EXCEPT !.st = "callback", !.success = outcome.success,
                                      !.err = outcome.err]]
               /\ UNCHANGED procVars
          ELSE /\ req' = [req EXCEPT ![w][i] =
                            [@ EXCEPT !.st = "exit", !.success = outcome.success,
                                      !.err = outcome.err]]
               /\ Exit1
  /\ UNCHANGED << argv, FLAGS, ndebug, g_obj, issued, mainVars, t_pc, t_ii, ctxVars >>

\* The completion of the get of request i of driver w: the service answers and
\* the SDK calls ObjDownloadDone, which exits or goes on to ReleaseSlot.
ObjDownloadDone(w, i) ==
  /\ Alive
  /\ DownloadRunning
  /\ req[w][i].st = "inflight"
  /\ \E outcome \in GetOutcomes(req[w][i].key) :
       IF DownloadDoneOk(outcome)
       THEN /\ req' = [req EXCEPT ![w][i] =
                         [@ EXCEPT !.st = "callback", !.success = outcome.success,
                                   !.err = outcome.err, !.len = outcome.len]]
            /\ UNCHANGED procVars
       ELSE /\ req' = [req EXCEPT ![w][i] =
                         [@ EXCEPT !.st = "exit", !.success = outcome.success,
                                   !.err = outcome.err, !.len = outcome.len]]
            /\ Exit1
  /\ UNCHANGED << argv, FLAGS, ndebug, g_obj, store, issued, mainVars, t_pc, t_ii,
                  ctxVars >>

\* exit(1) has run the exit handlers: the process is gone.
ProcessExit ==
  /\ proc = "exiting"
  /\ proc' = "exited"
  /\ UNCHANGED << argv, FLAGS, ndebug, g_obj, store, issued, mainVars, exit_code,
                  t_pc, t_ii, ctxVars, req >>

\* ------------------------------------------------------------- main
\* What ~ReportDuration prints: the operation and the object total
\* num_threads_ * obj_per_thread_ (the iteration is part of the operation string).
ReportDuration(operation, iter, num_threads, obj_per_thread) ==
  [operation |-> operation, iteration |-> iter, num_obj |-> num_threads * obj_per_thread]

\* A stage report that counts the objects of one iteration only.
StageObjPerThread_OneIteration == FLAGS.num_objects

\* obj_per_thread of the two stage reports of main.
StageObjPerThread == FLAGS.num_objects * FLAGS.count

\* A download stage that runs whatever --stage says.
DownloadSelected_Always == TRUE

\* if (FLAGS_stage != "upload")
DownloadSelected == FLAGS.stage # "upload"

\* if (FLAGS_stage != "download")
UploadSelected == FLAGS.stage # "download"

\* A normalization that leaves a limit of 0 as it is.
NormalizedLimit_ZeroKept(flags) ==
  IF flags.num_outstanding_req < 0 THEN flags.num_connections
  ELSE flags.num_outstanding_req

\* main after ParseCommandLineFlags: the limit is made positive.
NormalizedLimit(flags) ==
  IF flags.num_outstanding_req <= 0 THEN flags.num_connections
  ELSE flags.num_outstanding_req

MainStart ==
  /\ Alive
  /\ main_pc = "main"
  /\ FLAGS' = [FLAGS EXCEPT !.num_outstanding_req = NormalizedLimit(FLAGS)]
  /\ main_pc' = "upload_stage"
  /\ UNCHANGED << argv, ndebug, g_obj, store, issued, iteration, thread_ii, reports,
                  procVars, t_pc, t_ii, ctxVars, req >>

\* if (FLAGS_stage != "download"): the stage report starts and ii = 1.
UploadStage ==
  /\ Alive
  /\ main_pc = "upload_stage"
  /\ IF UploadSelected
     THEN main_pc' = "upload_loop" /\ iteration' = 1
     ELSE main_pc' = "download_stage" /\ UNCHANGED iteration
  /\ UNCHANGED << argv, FLAGS, ndebug, g_obj, store, issued, thread_ii, reports,
                  procVars, t_pc, t_ii, ctxVars, req >>

\* A chunk that is filled only while it is empty.
RandomChunk_KeptIfFilled(chunk) ==
  IF chunk.size = 0 THEN [size |-> ObjSizeBytes, fill |-> chunk.fill + 1] ELSE chunk

\* InitChunk: g_obj is resized to FLAGS_obj_size_kb * 1024 bytes and every byte
\* is drawn anew from the random device; fill numbers the contents drawn.
RandomChunk(chunk) == [size |-> ObjSizeBytes, fill |-> chunk.fill + 1]

\* InitChunk, then the call of Upload(ii).
InitChunk ==
  /\ Alive
  /\ main_pc = "upload_loop"
  /\ iteration <= FLAGS.count
  /\ g_obj' = RandomChunk(g_obj)
  /\ main_pc' = "Upload_spawn"
  /\ thread_ii' = 0
  /\ UNCHANGED << argv, FLAGS, ndebug, store, issued, iteration, reports, procVars,
                  t_pc, t_ii, ctxVars, req >>

\* The end of the upload stage: its report is printed.
UploadStageEnd ==
  /\ Alive
  /\ main_pc = "upload_loop"
  /\ iteration > FLAGS.count
  /\ reports' = Append(reports,
       ReportDuration("UPLOAD stage", 0, FLAGS.num_threads, StageObjPerThread))
  /\ main_pc' = "download_stage"
  /\ UNCHANGED << argv, FLAGS, ndebug, g_obj, store, issued, iteration, thread_ii,
                  procVars, t_pc, t_ii, ctxVars, req >>

\* new thread(UploadThread, ii) or new thread(DownloadThread, ii): the thread
\* makes its own Ctx and starts its request loop.
SpawnThread(w) ==
  /\ t_pc' = [t_pc EXCEPT ![w] =
       IF MoreRequests(0) THEN "GetAvailableSlot" ELSE "WaitAll"]
  /\ t_ii' = [t_ii EXCEPT ![w] = 0]
  /\ num_outstanding_req_' = [num_outstanding_req_ EXCEPT ![aws_ctx(w)] = 0]
  /\ cond_' = [cond_ EXCEPT ![aws_ctx(w)] = {}]
  /\ req' = [req EXCEPT ![w] = [i \in Objects |-> NoRequest]]

\* A join loop that stops one thread short.
JoinCount_OffByOne == FLAGS.num_threads - 1

\* The number of threads the join loop of Upload and Download joins.
JoinCount == FLAGS.num_threads

\* One pass of the spawn loop of Upload.
UploadSpawn ==
  /\ Alive
  /\ main_pc = "Upload_spawn"
  /\ thread_ii < FLAGS.num_threads
  /\ SpawnThread(thread_ii)
  /\ IF thread_ii + 1 < FLAGS.num_threads
     THEN thread_ii' = thread_ii + 1 /\ UNCHANGED main_pc
     ELSE thread_ii' = 0 /\ main_pc' = "Upload_join"
  /\ UNCHANGED << argv, FLAGS, ndebug, g_obj, store, issued, iteration, reports,
                  procVars >>

\* One pass of the join loop of Upload: threads[ii]->join() returns when the
\* thread has returned from UploadThread.
UploadJoin ==
  /\ Alive
  /\ main_pc = "Upload_join"
  /\ thread_ii < JoinCount
  /\ t_pc[thread_ii] = "returned"
  /\ t_pc' = [t_pc EXCEPT ![thread_ii] = "joined"]
  /\ thread_ii' = thread_ii + 1
  /\ UNCHANGED << argv, FLAGS, ndebug, g_obj, store, issued, main_pc, iteration,
                  reports, procVars, t_ii, ctxVars, req >>

\* The return of Upload: the iteration report is printed; then ++ii in main.
UploadReturn ==
  /\ Alive
  /\ main_pc = "Upload_join"
  /\ thread_ii >= JoinCount
  /\ reports' = Append(reports,
       ReportDuration("UPLOAD", iteration, FLAGS.num_threads, FLAGS.num_objects))
  /\ iteration' = iteration + 1
  /\ main_pc' = "upload_loop"
  /\ UNCHANGED << argv, FLAGS, ndebug, g_obj, store, issued, thread_ii, procVars,
                  t_pc, t_ii, ctxVars, req >>

\* if (FLAGS_stage != "upload"): the stage report starts and ii = 1.
DownloadStage ==
  /\ Alive
  /\ main_pc = "download_stage"
  /\ IF DownloadSelected
     THEN main_pc' = "download_loop" /\ iteration' = 1
     ELSE main_pc' = "shutdown" /\ UNCHANGED iteration
  /\ UNCHANGED << argv, FLAGS, ndebug, g_obj, store, issued, thread_ii, reports,
                  procVars, t_pc, t_ii, ctxVars, req >>

\* The call of Download(ii).
DownloadCall ==
  /\ Alive
  /\ main_pc = "download_loop"
  /\ iteration <= FLAGS.count
  /\ main_pc' = "Download_spawn"
  /\ thread_ii' = 0
  /\ UNCHANGED << argv, FLAGS, ndebug, g_obj, store, issued, iteration, reports,
                  procVars, t_pc, t_ii, ctxVars, req >>

\* The end of the download stage: its report is printed.
DownloadStageEnd ==
  /\ Alive
  /\ main_pc = "download_loop"
  /\ iteration > FLAGS.count
  /\ reports' = Append(reports,
       ReportDuration("DOWNLOAD stage", 0, FLAGS.num_threads, StageObjPerThread))
  /\ main_pc' = "shutdown"
  /\ UNCHANGED << argv, FLAGS, ndebug, g_obj, store, issued, iteration, thread_ii,
                  procVars, t_pc, t_ii, ctxVars, req >>

\* One pass of the spawn loop of Download.
DownloadSpawn ==
  /\ Alive
  /\ main_pc = "Download_spawn"
  /\ thread_ii < FLAGS.num_threads
  /\ SpawnThread(thread_ii)
  /\ IF thread_ii + 1 < FLAGS.num_threads
     THEN thread_ii' = thread_ii + 1 /\ UNCHANGED main_pc
     ELSE thread_ii' = 0 /\ main_pc' = "Download_join"
  /\ UNCHANGED << argv, FLAGS, ndebug, g_obj, store, issued, iteration, reports,
                  procVars >>

\* One pass of the join loop of Download.
DownloadJoin ==
  /\ Alive
  /\ main_pc = "Download_join"
  /\ thread_ii < JoinCount
  /\ t_pc[thread_ii] = "returned"
  /\ t_pc' = [t_pc EXCEPT ![thread_ii] = "joined"]
  /\ thread_ii' = thread_ii + 1
  /\ UNCHANGED << argv, FLAGS, ndebug, g_obj, store, issued, main_pc, iteration,
                  reports, procVars, t_ii, ctxVars, req >>

\* The return of Download: the iteration report is printed; then ++ii in main.
DownloadReturn ==
  /\ Alive
  /\ main_pc = "Download_join"
  /\ thread_ii >= JoinCount
  /\ reports' = Append(reports,
       ReportDuration("DOWNLOAD", iteration, FLAGS.num_threads, FLAGS.num_objects))
  /\ iteration' = iteration + 1
  /\ main_pc' = "download_loop"
  /\ UNCHANGED << argv, FLAGS, ndebug, g_obj, store, issued, thread_ii, procVars,
                  t_pc, t_ii, ctxVars, req >>

\* Aws::ShutdownAPI and return 0.
MainReturn ==
  /\ proc = "running"
  /\ main_pc = "shutdown"
  /\ main_pc' = "done"
  /\ proc' = "exited"
  /\ exit_code' = 0
  /\ UNCHANGED << argv, FLAGS, ndebug, g_obj, store, issued, iteration, thread_ii,
                  reports, t_pc, t_ii, ctxVars, req >>

\* ------------------------------------------------------------- specification
MainNext ==
  \/ MainStart
  \/ UploadStage
  \/ InitChunk
  \/ UploadSpawn
  \/ UploadJoin
  \/ UploadReturn
  \/ UploadStageEnd
  \/ DownloadStage
  \/ DownloadCall
  \/ DownloadSpawn
  \/ DownloadJoin
  \/ DownloadReturn
  \/ DownloadStageEnd
  \/ MainReturn

DriverNext(w) ==
  \/ GetAvailableSlot(w)
  \/ GetAvailableSlotWoken(w)
  \/ PutObjectAsync(w)
  \/ GetObjectAsync(w)
  \/ WaitAll(w)
  \/ WaitAllWoken(w)

CompletionNext(w, i) ==
  \/ ObjUploadDone(w, i)
  \/ ObjDownloadDone(w, i)
  \/ ReleaseSlot(w, i)

Next ==
  \/ MainNext
  \/ \E w \in Workers : DriverNext(w)
  \/ \E w \in Workers, i \in Objects : CompletionNext(w, i)
  \/ \E w \in Workers : SpuriousWakeup(w)
  \/ ProcessExit

Spec == Init /\ [][Next]_vars

\* The scheduler runs every thread that can run, the SDK completes every
\* request, and exit(1) ends; nothing promises a spurious wakeup.
Fairness ==
  /\ WF_vars(MainNext)
  /\ \A w \in Workers : WF_vars(DriverNext(w))
  /\ \A w \in Workers, i \in Objects : WF_vars(CompletionNext(w, i))
  /\ WF_vars(ProcessExit)

FairSpec == Init /\ [][Next]_vars /\ Fairness

ScenarioSpec == ScenarioInit /\ [][Next]_vars

\* ------------------------------------------------------------- properties
Spawned(w) == t_pc[w] # "none"
Blocked(w) == w \in cond_[aws_ctx(w)]
Requests == 0 .. (FLAGS.num_objects - 1)

\* The requests of driver w whose callback has released its slot.
Released(w) == { i \in Objects : req[w][i].st = "done" }

\* The slots driver w has taken: one per submission, and one more when it is
\* between GetAvailableSlot and the submission.
Acquired(w) == t_ii[w] + (IF t_pc[w] = "submit" THEN 1 ELSE 0)

\* C1: the outstanding count of a worker never exceeds the effective maximum,
\* and the assertion before the increment in GetAvailableSlot never fails,
\* whatever makes cond_.wait return.
C1_CountWithinLimit ==
  /\ \A w \in Workers : Spawned(w) => num_outstanding_req_[w] <= SlotLimit
  /\ proc # "aborted"

\* C2: ReleaseSlot runs only with a count above 0: a callback about to release
\* finds a slot taken, the releases made never outnumber the acquires made, and
\* the count is never negative (so the assertion in ReleaseSlot holds).
C2_ReleaseAfterAcquire ==
  \A w \in Workers :
    /\ num_outstanding_req_[w] >= 0
    /\ Cardinality(Released(w)) <= Acquired(w)
    /\ \A i \in Objects : req[w][i].st = "callback" => num_outstanding_req_[w] > 0

C2_Witness ==
  \E w \in Workers :
    /\ Cardinality(Released(w)) = 2
    /\ num_outstanding_req_[w] = 1
    /\ \E i \in Objects : req[w][i].st = "callback"

\* C3: a driver that has returned from WaitAll has submitted all of its
\* num_objects requests, every one of their callbacks has run to the end after a
\* successful outcome, and its count is exactly 0.
C3_DrainComplete ==
  \A w \in Workers :
    t_pc[w] \in {"returned", "joined"} =>
      /\ num_outstanding_req_[w] = 0
      /\ t_ii[w] = FLAGS.num_objects
      /\ \A i \in Requests : req[w][i].st = "done" /\ req[w][i].success

C3_Witness ==
  \E w \in Workers :
    /\ t_pc[w] = "returned"
    /\ FLAGS.num_objects >= 2
    /\ \E v \in Workers : t_pc[v] = "wait_all" /\ Blocked(v)

\* The callback of request i of driver w has been called with its outcome.
Completed(w, i) == req[w][i].st \in {"callback", "done", "exit"}

\* The operation of the stage iteration that is running, as the reports name it.
RunningOperation ==
  IF UploadRunning THEN "UPLOAD" ELSE IF DownloadRunning THEN "DOWNLOAD" ELSE ""

\* No report is out for the running iteration nor for its stage.
RunningStageUnreported ==
  \A k \in 1 .. Len(reports) :
    /\ ~(reports[k].operation = RunningOperation /\ reports[k].iteration = iteration)
    /\ UploadRunning => reports[k].operation # "UPLOAD stage"
    /\ DownloadRunning => reports[k].operation # "DOWNLOAD stage"

\* Request i of driver w got an outcome that is not a success.
Failed(w, i) == Completed(w, i) /\ ~req[w][i].success

\* What holds once a completion has reported a failure.
C4_FailureIsFatal ==
  \A w \in Workers, i \in Objects :
    Failed(w, i) =>
      /\ req[w][i].st = "exit"
      /\ proc # "running"
      /\ exit_code # 0
      /\ num_outstanding_req_[w] >= 1
      /\ RunningStageUnreported

\* What every step taken after a failure leaves alone.
C4_NothingAfterFailure ==
  (\E w \in Workers, i \in Objects : Failed(w, i)) =>
    /\ reports' = reports
    /\ \A w \in Workers, i \in Objects : Failed(w, i) => req'[w][i] = req[w][i]
    /\ \A w \in Workers :
         (\E i \in Objects : Failed(w, i)) =>
           /\ t_pc'[w] \notin {"returned", "joined"}
           /\ t_ii'[w] >= t_ii[w]

\* C4: a put or get completion that reports a failure makes its callback call
\* exit(1): the process is no longer running and its status is not 0, the slot
\* of the request stays taken, the request is never submitted again, its driver
\* never returns, and no iteration or stage report of the running stage is out
\* then or is printed at any time afterwards, whatever the other threads do.
C4_FailFast == []C4_FailureIsFatal /\ [][C4_NothingAfterFailure]_vars

C4_Witness ==
  \E w \in Workers, i \in Objects, v \in Workers :
    /\ Failed(w, i)
    /\ proc = "exiting"
    /\ v # w
    /\ t_pc[v] = "returned"

\* Request i of driver w is a get that succeeded with the wrong content length.
WrongLength(w, i) ==
  /\ DownloadRunning
  /\ Completed(w, i)
  /\ req[w][i].success
  /\ req[w][i].len # ObjSizeBytes

\* C5: a get that succeeds with a content length other than obj_size_kb * 1024
\* ends like a failed one (exit(1): process not running, status not 0, slot
\* still taken), and a download callback goes on to ReleaseSlot only after a
\* success with the right length.
C5_WrongLengthIsFatal ==
  \A w \in Workers, i \in Objects :
    /\ WrongLength(w, i) =>
         /\ req[w][i].st = "exit"
         /\ proc # "running"
         /\ exit_code # 0
         /\ num_outstanding_req_[w] >= 1
    /\ (DownloadRunning /\ req[w][i].st \in {"callback", "done"}) =>
         /\ req[w][i].success
         /\ req[w][i].len = ObjSizeBytes

C5_Witness ==
  \E w \in Workers, i \in Objects :
    /\ WrongLength(w, i)
    /\ req[w][i].len = 2 * ObjSizeBytes
    /\ proc = "exited"
    /\ exit_code = 1

\* An iteration report is printed by this step.
IterationReported ==
  /\ Len(reports') = Len(reports) + 1
  /\ reports'[Len(reports')].iteration >= 1

\* What holds of the state in which an iteration report is printed.
C6_ReportAfterJoin ==
  IterationReported =>
    \A w \in Workers :
      IF w < FLAGS.num_threads
      THEN /\ t_pc[w] = "joined"
           /\ num_outstanding_req_[w] = 0
           /\ \A i \in Requests : req[w][i].st = "done"
      ELSE t_pc[w] = "none"

\* C6: when Upload or Download returns and its iteration report is printed,
\* exactly the threads 0 .. num_threads - 1 were spawned, each has returned from
\* WaitAll and has been joined, and none of them has a request outstanding.
C6_JoinBeforeReport == [][C6_ReportAfterJoin]_vars

C6_Witness ==
  /\ FLAGS.num_threads = 2
  /\ Len(reports) = 2
  /\ reports[2].operation = "DOWNLOAD"
  /\ reports[2].iteration = 2

\* Some callback has called exit(1): a request failed or came back with the
\* wrong length.
SomeExit == \E w \in Workers, i \in Objects : req[w][i].st = "exit"

\* main has returned 0 after every stage it ran joined all of its threads.
Finished ==
  /\ main_pc = "done"
  /\ proc = "exited"
  /\ exit_code = 0
  /\ \A w \in Workers : t_pc[w] \in {"none", "joined"}

\* C7: under fair scheduling, a run in which no completion fails (and no get
\* has the wrong length) ends with every driver returned from its loop and
\* from WaitAll, every iteration returned and main returned.
C7_EventuallyFinished == <>(SomeExit \/ Finished)

\* The builds without assertions do finish: what stops the others is the
\* assertion of GetAvailableSlot failing after a spurious wakeup.
C7_FinishedWithoutAsserts == ndebug => <>(SomeExit \/ Finished)

\* A driver blocked in cond_.wait has not missed the notification it waits
\* for: in GetAvailableSlot no slot is free, in WaitAll a request is outstanding.
C8_BlockedForAReason ==
  \A w \in Workers :
    Blocked(w) =>
      /\ t_pc[w] = "wait_slot" => num_outstanding_req_[w] >= SlotLimit
      /\ t_pc[w] = "wait_all" => num_outstanding_req_[w] > 0

\* A step that lowers the count of a limiter (a ReleaseSlot) wakes the driver
\* blocked on it, and a driver woken at the limit finds a slot free.
C8_ReleaseWakes ==
  \A w \in Workers :
    (Blocked(w) /\ num_outstanding_req_'[w] < num_outstanding_req_[w]) =>
      /\ ~Blocked(w)'
      /\ (t_pc[w] = "wait_slot" /\ num_outstanding_req_[w] = SlotLimit) =>
           num_outstanding_req_'[w] < SlotLimit

\* C8: no wakeup is lost.  A driver blocked in GetAvailableSlot with the count
\* at the maximum is woken by the next ReleaseSlot on its limiter, which leaves
\* a slot free for it; a driver blocked in WaitAll is woken by every
\* ReleaseSlot, the one that brings the count to 0 included; and no driver
\* sleeps in a state where what it waits for already holds.
C8_NoLostWakeup == []C8_BlockedForAReason /\ [][C8_ReleaseWakes]_vars

C8_Witness ==
  \E w \in Workers :
    /\ t_pc[w] = "wait_slot"
    /\ ~Blocked(w)
    /\ num_outstanding_req_[w] = SlotLimit - 1
    /\ SlotLimit = 2

\* C9: with --num_outstanding_req at 0 or below, the limit every
\* GetAvailableSlot compares with is --num_connections: main has replaced it
\* before the first thread is spawned, and it stays so to the end of the run.
C9_LimitIsConnections ==
  /\ \A w \in Workers : Spawned(w) => main_pc # "main"
  /\ (main_pc # "main" /\ argv.num_outstanding_req <= 0) =>
       /\ SlotLimit = argv.num_connections
       /\ FLAGS.num_connections = argv.num_connections

C9_Witness ==
  \E w \in Workers :
    /\ argv.num_outstanding_req = 0
    /\ t_pc[w] = "wait_slot"
    /\ Blocked(w)
    /\ num_outstanding_req_[w] = argv.num_connections

\* The gets and the puts handed to the client.
Gets == { r \in BagToSet(issued) : r.op = "get" }
Puts == { r \in BagToSet(issued) : r.op = "put" }

\* C10: when both stages run, every get of thread w for index ii has the key of
\* a put thread w made for index ii; every get that the service answers from the
\* bucket succeeds with obj_size_kb * 1024 bytes; and no download callback exits
\* for a missing key or a wrong length (only an error of the service itself can
\* end the download stage).
C10_RoundTrip ==
  (FLAGS.stage = "all") =>
    /\ \A g \in Gets :
         \E p \in Puts : p.w = g.w /\ p.ii = g.ii /\ p.key = g.key
    /\ \A w \in Workers, i \in Objects :
         (DownloadRunning /\ Completed(w, i)) =>
           /\ req[w][i].err # "NoSuchKey"
           /\ req[w][i].success => req[w][i].len = ObjSizeBytes
           /\ req[w][i].st = "exit" => req[w][i].err = "NetworkError"

C10_Witness ==
  /\ FLAGS.stage = "all"
  /\ FLAGS.num_threads = 2
  /\ main_pc = "done"
  /\ Cardinality(Gets) = 4
  /\ Cardinality(Puts) = 4

\* The requests of kind op ("put" or "get") handed to the client in iteration it.
IssuedIn(op, it) == { r \in BagToSet(issued) : r.op = op /\ r.iteration = it }

\* The kind of request an iteration report stands for.
OpOf(operation) == IF operation = "UPLOAD" THEN "put" ELSE "get"

\* The kind of request the running iteration submits.
RunningOp == IF UploadRunning THEN "put" ELSE "get"

\* Thread w has been spawned in the iteration that is running.
SpawnedNow(w) ==
  IF main_pc \in {"Upload_spawn", "Download_spawn"} THEN w < thread_ii
  ELSE main_pc \in {"Upload_join", "Download_join"} /\ w < FLAGS.num_threads

\* C11: in one stage iteration thread w submits one request for each index of
\* 0 .. num_objects - 1 and nothing else: no request is handed to the client
\* twice, no key is used twice in an iteration, the indexes a running thread
\* has submitted are 0 .. ii - 1 in its loop, a reported iteration has made
\* exactly num_threads * num_objects submissions, and every submission was
\* preceded by a slot taken for it in GetAvailableSlot.
C11_OneRequestPerIndex ==
  /\ \A r \in BagToSet(issued) :
       /\ CopiesIn(r, issued) = 1
       /\ r.w \in 0 .. (FLAGS.num_threads - 1)
       /\ r.ii \in Requests
       /\ \A q \in IssuedIn(r.op, r.iteration) : q.key = r.key => q = r
  /\ \A w \in Workers :
       SpawnedNow(w) =>
         /\ { r.ii : r \in { q \in IssuedIn(RunningOp, iteration) : q.w = w } }
              = 0 .. (t_ii[w] - 1)
         /\ t_ii[w] <= FLAGS.num_objects
         /\ t_ii[w] <= num_outstanding_req_[w] + Cardinality(Released(w))
  /\ \A k \in 1 .. Len(reports) :
       reports[k].iteration >= 1 =>
         LET done == IssuedIn(OpOf(reports[k].operation), reports[k].iteration)
         IN /\ Cardinality(done) = FLAGS.num_threads * FLAGS.num_objects
            /\ \A w \in 0 .. (FLAGS.num_threads - 1), i \in Requests :
                 Cardinality({ r \in done : r.w = w /\ r.ii = i }) = 1

C11_Witness ==
  /\ FLAGS.num_threads = 2
  /\ FLAGS.num_objects = 2
  /\ Len(reports) = 1
  /\ Cardinality(IssuedIn("put", 1)) = 4

\* The puts of thread w that are outstanding: handed to the client, their
\* outcome not yet delivered to ObjUploadDone.
OutstandingPuts(w) ==
  IF UploadRunning /\ SpawnedNow(w)
  THEN { i \in Objects : req[w][i].st = "inflight" }
  ELSE {}

\* C12: with 2 threads, 3 objects per thread and a limit of 2, at every instant
\* of the upload stage at most 2 puts are outstanding.  The limit is one of
\* requests per thread (--num_outstanding_req), so this states what the claim
\* says of each thread: no thread has more than 2 puts outstanding.
C12_AtMostTwoOutstanding ==
  \A w \in Workers : Cardinality(OutstandingPuts(w)) <= 2

\* C12 read as a bound on the puts of all the threads together.
C12_AtMostTwoInTotal ==
  Cardinality({ p \in Workers \X Objects : p[2] \in OutstandingPuts(p[1]) }) <= 2

\* The builds with assertions keep each thread within its limit: there the
\* spurious wakeup ends in abort() before the submission.
C12_WithinLimitWithAsserts == ndebug \/ C12_AtMostTwoOutstanding

\* The two stages: the operation of their iteration reports, of their stage
\* report, and the kind of request they submit.
StageKinds ==
  { [iter |-> "UPLOAD", stage |-> "UPLOAD stage", op |-> "put"],
    [iter |-> "DOWNLOAD", stage |-> "DOWNLOAD stage", op |-> "get"] }

\* The number of requests of kind op handed to the client so far.
NumIssued(op) ==
  BagCardinality([r \in { q \in BagToSet(issued) : q.op = op } |-> issued[r]])

\* The positions of the reports with this operation.
ReportsOf(operation) == { k \in 1 .. Len(reports) : reports[k].operation = operation }

\* C13: each selected stage runs its FLAGS_count iterations one after another
\* and then prints one stage report.  The iteration reports of a stage are
\* numbered 1, 2, ... in the order printed; a request of iteration k + 1 is
\* submitted only after the report of iteration k (printed with every thread
\* joined); the stage report follows the report of iteration FLAGS_count, is
\* printed once, carries num_threads * num_objects * count objects, and that is
\* the number of requests of the stage, every one of them completed.
C13_StageRunsCountIterations ==
  \A s \in StageKinds :
    /\ Cardinality(ReportsOf(s.iter)) <= FLAGS.count
    /\ Cardinality(ReportsOf(s.stage)) <= 1
    /\ \A k \in ReportsOf(s.iter) :
         /\ reports[k].iteration \in 1 .. FLAGS.count
         /\ reports[k].iteration > 1 =>
              /\ k > 1
              /\ reports[k - 1].operation = s.iter
              /\ reports[k - 1].iteration = reports[k].iteration - 1
    /\ \A r \in BagToSet(issued) :
         (r.op = s.op /\ r.iteration > 1) =>
           \E k \in ReportsOf(s.iter) : reports[k].iteration = r.iteration - 1
    /\ \A k \in ReportsOf(s.stage) :
         /\ k > 1
         /\ reports[k - 1].operation = s.iter
         /\ reports[k - 1].iteration = FLAGS.count
         /\ Cardinality(ReportsOf(s.iter)) = FLAGS.count
         /\ reports[k].num_obj = FLAGS.num_threads * FLAGS.num_objects * FLAGS.count
         /\ NumIssued(s.op) = reports[k].num_obj
         /\ ~(UploadRunning \/ DownloadRunning) =>
              \A w \in Workers, i \in Objects : req[w][i].st \in {"none", "done"}
    /\ main_pc \in {"shutdown", "done"} =>
         (Cardinality(ReportsOf(s.stage)) = 1
            <=> (FLAGS.stage = "all" \/ (FLAGS.stage = "upload" /\ s.op = "put")
                   \/ (FLAGS.stage = "download" /\ s.op = "get")))

C13_Witness ==
  /\ FLAGS.count = 2
  /\ FLAGS.num_threads = 2
  /\ \E k \in ReportsOf("UPLOAD stage") : reports[k].num_obj = 4
  /\ NumIssued("put") = 4
  /\ main_pc = "done"

\* The stage of kind s is selected by --stage.
Selected(s) == IF s.op = "put" THEN UploadSelected ELSE DownloadSelected

\* Every iteration of every selected stage has its one report, and every
\* selected stage has its stage report.
AllReported ==
  \A s \in StageKinds :
    Selected(s) =>
      /\ \A it \in 1 .. FLAGS.count :
           Cardinality({ k \in ReportsOf(s.iter) : reports[k].iteration = it }) = 1
      /\ Cardinality(ReportsOf(s.stage)) = 1

\* C14: a run in which no completion reports a failure or a wrong length ends
\* with status 0 and with every iteration and stage report printed once; the
\* process ends with another status only after a completion has reported a
\* failure or a wrong length.
C14_ZeroUnlessACompletionFailed ==
  /\ exit_code # 0 => SomeExit
  /\ (proc \in {"exited", "aborted"} /\ ~SomeExit) => (exit_code = 0 /\ AllReported)

\* In the builds without assertions C14 holds of every run that ends.
C14_HoldsWithoutAsserts == ndebug => C14_ZeroUnlessACompletionFailed

\* A run of two threads that ended with status 0 and all its reports.
C14_FullSuccess ==
  /\ proc = "exited"
  /\ exit_code = 0
  /\ FLAGS.stage = "all"
  /\ FLAGS.num_threads = 2
  /\ AllReported

\* The <<thread number, object index>> pairs the keys are compared for: beyond
\* one digit, where "1" then "11" and "11" then "1" have the same digits.
KeyPairs == (0 .. KeyRange) \X (0 .. KeyRange)

\* C15: for the prefix of the run the key is an injective function of the
\* thread number and the object index: over KeyPairs the upload keys, and the
\* download keys, are as many as the pairs (checked where main starts; the
\* prefix never changes); and in every state two requests handed to the client
\* with the same key are of the same thread and index, so no two threads ever
\* use the same key.
C15_KeysInjective ==
  /\ main_pc = "main" =>
       /\ Cardinality({ UploadKey(p[1], p[2]) : p \in KeyPairs }) = Cardinality(KeyPairs)
       /\ Cardinality({ DownloadKey(p[1], p[2]) : p \in KeyPairs }) = Cardinality(KeyPairs)
  /\ \A r, q \in BagToSet(issued) : r.key = q.key => (r.w = q.w /\ r.ii = q.ii)

C15_Witness ==
  \E r, q \in BagToSet(issued) :
    /\ r.w # q.w
    /\ r.ii = q.ii
    /\ r.op = q.op
    /\ r.iteration = q.iteration
    /\ r.key # q.key

\* No driver thread exists and no request is with the client.
Quiescent ==
  /\ \A w \in Workers : t_pc[w] \in {"none", "joined"}
  /\ \A w \in Workers : num_outstanding_req_[w] = 0
  /\ \A w \in Workers, i \in Objects : req[w][i].st \in {"none", "done"}

\* The chunk in use is the one drawn for the upload iteration that is running
\* or was the last to run.
C16_OneChunkPerIteration ==
  /\ UploadRunning => g_obj.fill = iteration
  /\ main_pc = "upload_loop" => g_obj.fill = iteration - 1
  /\ (main_pc \in {"shutdown", "done"} /\ UploadSelected) => g_obj.fill = FLAGS.count
  /\ ~UploadSelected => g_obj.fill = 0

\* A step that writes g_obj is taken by main between two iterations, with no
\* driver thread and no request around, and draws one new content.
C16_WrittenBetweenIterations ==
  g_obj' # g_obj =>
    /\ main_pc = "upload_loop"
    /\ main_pc' = "Upload_spawn"
    /\ Quiescent
    /\ g_obj'.fill = g_obj.fill + 1
    /\ g_obj'.size = ObjSizeBytes

C17_OwnLimiterOnly ==
  /\ \A w \in Workers :
       num_outstanding_req_'[w] # num_outstanding_req_[w] =>
         \/ t_pc'[w] # t_pc[w]
         \/ \E i \in Objects : req'[w][i] # req[w][i]
  /\ \A w \in Workers, i \in Objects :
       (req[w][i].st = "callback" /\ req'[w][i].st = "done") =>
         /\ num_outstanding_req_'[w] = num_outstanding_req_[w] - 1
         /\ \A v \in Workers \ {w} :
              /\ num_outstanding_req_'[v] = num_outstanding_req_[v]
              /\ cond_'[v] = cond_[v]
  /\ \A v, w \in Workers :
       (v # w /\ num_outstanding_req_'[v] # num_outstanding_req_[v]) =>
         num_outstanding_req_'[w] = num_outstanding_req_[w]
  /\ \A w \in Workers : cond_'[w] \subseteq {w}

\* C17: the threads are isolated from each other: GetAvailableSlot, ReleaseSlot
\* and WaitAll on the limiter of thread w leave the count of every other thread
\* as it is, and a completion never releases a slot of another thread.
C17_WorkersIsolated == [][C17_OwnLimiterOnly]_vars

C17_Witness ==
  \E v, w \in Workers :
    /\ v # w
    /\ Released(w) # {}
    /\ num_outstanding_req_[w] = 0
    /\ t_pc[v] = "wait_slot"
    /\ Blocked(v)
    /\ num_outstanding_req_[v] = SlotLimit

\* main is in the download stage or past it.
PastUpload ==
  main_pc \in {"download_loop", "Download_spawn", "Download_join", "shutdown", "done"}

\* What holds of the requests issued, by the stage selected.
C18_SelectedStagesOnly ==
  /\ argv.stage = "upload" => Gets = {}
  /\ argv.stage = "download" => Puts = {}
  /\ Gets # {} =>
       /\ PastUpload
       /\ argv.stage = "all" =>
            /\ Cardinality(ReportsOf("UPLOAD")) = FLAGS.count
            /\ Cardinality(ReportsOf("UPLOAD stage")) = 1
            /\ NumIssued("put") = FLAGS.num_threads * FLAGS.num_objects * FLAGS.count
  /\ (PastUpload /\ Gets = {}) =>
       \A w \in Workers, i \in Objects : req[w][i].st \in {"none", "done"}

\* C18: with --stage=upload no get is ever issued and with --stage=download no
\* put; with both stages the first get is submitted only after every upload
\* iteration has joined its threads and the upload stage report is printed, and
\* from the first get on no put is outstanding and none is submitted.
C18_StageOrder ==
  /\ []C18_SelectedStagesOnly
  /\ [][Gets # {} => Puts' = Puts]_vars

C18_Witness ==
  /\ argv.stage = "all"
  /\ FLAGS.count = 2
  /\ Cardinality(Puts) = 4
  /\ Cardinality(Gets) = 1
  /\ \E w \in Workers, i \in Objects : req[w][i].st = "inflight"

\* The requests of thread w in flight: handed to the client, their callback not
\* yet through ReleaseSlot (the last thing a callback does).
InFlight(w) == { i \in Objects : req[w][i].st \in {"inflight", "callback", "exit"} }

\* The count of a thread is the number of its requests in flight, plus 1 while
\* its driver is between GetAvailableSlot and the submission.
C19_CountTracksInFlight ==
  \A w \in Workers :
    Spawned(w) =>
      /\ Cardinality(InFlight(w)) <= num_outstanding_req_[w]
      /\ num_outstanding_req_[w] - Cardinality(InFlight(w)) <= 1
      /\ num_outstanding_req_[w] # Cardinality(InFlight(w)) => t_pc[w] = "submit"

\* C19: for every thread the requests in flight are at most its count, the two
\* differ by at most 1, and so the requests in flight of a thread never exceed
\* the effective maximum.
C19_InFlightWithinLimit ==
  /\ C19_CountTracksInFlight
  /\ \A w \in Workers : Spawned(w) => Cardinality(InFlight(w)) <= SlotLimit

\* The only thread ever blocked on the condition variable of the Ctx of thread
\* w is w itself, inside its GetAvailableSlot or its WaitAll.
C20_OwnerWaitsAlone ==
  \A w \in Workers :
    /\ Cardinality(cond_[w]) <= 1
    /\ cond_[w] \subseteq {w}
    /\ w \in cond_[w] => t_pc[w] \in {"wait_slot", "wait_all"}

\* The thread a step takes off a condition variable (the one notify_one wakes)
\* is the driver of that limiter, and a ReleaseSlot of a request of thread w
\* leaves w not blocked.
C20_NotifyWakesOwner ==
  \A w \in Workers :
    /\ (cond_[w] \ cond_'[w]) \subseteq {w}
    /\ (\E i \in Objects : req[w][i].st = "callback" /\ req'[w][i].st = "done") =>
         cond_'[w] = {}

\* C20: GetAvailableSlot and WaitAll of a limiter are called by the one driver
\* thread that made it, one at a time, so at most one thread waits on its
\* condition variable and notify_one cannot wake a thread other than the one
\* that needs the slot.
C20_OneWaiterPerLimiter == []C20_OwnerWaitsAlone /\ [][C20_NotifyWakesOwner]_vars

C20_Witness ==
  \E v, w \in Workers :
    /\ t_pc[v] = "wait_slot"
    /\ Blocked(v)
    /\ t_pc[w] = "wait_all"
    /\ Blocked(w)
    /\ cond_[v] = {v}
    /\ cond_[w] = {w}

=============================================================================
